---- MODULE Spec2Model ----
(***************************************************************************)
(* Model of geocode.py: the cascading geocode pipeline.                    *)
(*                                                                         *)
(*   possibly_strip_city  -> format_esri_batch -> geocode_stl_batch        *)
(*   geocode_stl (batches of 100) , geocode_nominatim_single/_batch        *)
(*   geocode (cascade) , main (validate, enrich, write)                    *)
(*                                                                         *)
(* Strings the code inspects character by character (addresses) are        *)
(* sequences of one-character strings; strings the code only copies        *)
(* (matched names, geocoder tags, field names) are TLA+ strings.           *)
(***************************************************************************)
EXTENDS Integers, Sequences, FiniteSets, TLC

VARIABLES
    pc,                   \* position of main(): read, geocode, stl_wait, done, failed
    jsonl,                \* the input file: one record (dict) per line
    addresses_to_geocode, \* main(): list of data["location"]
    output_data,          \* main(): list of the records, enriched in place
    output,               \* the output file: whether it was written, and its lines
    idx,                  \* number of results main() has consumed from geocode()
    results,              \* the stream geocode() has yielded so far
    batch_start,          \* addresses consumed by itertools.batched before the current batch
    stl_payload,          \* records of the regional request built last
    esri_results,         \* GeocodeResults of the current batch, in yield order
    esri_pos,             \* how many of esri_results geocode_stl() has yielded
    stl_requests,         \* sizes of the regional requests issued, in order
    stl_outstanding,      \* regional requests sent and not yet answered
    osm_requests,         \* positions (1-based) whose address was sent to the global provider
    osm_query,            \* the q parameter of the last global request
    slept,                \* TRUE iff time.sleep(1) ran since the last global request
    osm_unspaced,         \* global requests issued with no sleep since the previous one
    fatal_ignored,        \* a provider answered with a fatal failure and the run went on
    error,                \* exception that ended the run ("" if none)
    strip_case,           \* driver of possibly_strip_city: the parts of the address
    strip_in,             \*   the address handed to possibly_strip_city
    strip_out             \*   what it returned / raised

vars == <<pc, jsonl, addresses_to_geocode, output_data, output, idx, results,
          batch_start, stl_payload, esri_results, esri_pos, stl_requests,
          stl_outstanding, osm_requests, osm_query, slept, osm_unspaced,
          fatal_ignored, error, strip_case, strip_in, strip_out>>

pipeline_rest == <<pc, addresses_to_geocode, output_data, output, idx, results,
          batch_start, stl_payload, esri_results, esri_pos, stl_requests,
          stl_outstanding, osm_requests, osm_query, slept, osm_unspaced,
          fatal_ignored, error>>

strip_vars == <<strip_case, strip_in, strip_out>>

-----------------------------------------------------------------------------
(* Bounds of the model *)

\* every input of at most MaxSmallLen lines is tried
MaxSmallLen == 3
\* the long inputs hold up to MaxFullBatches full regional batches plus a remainder
MaxFullBatches == 2

-----------------------------------------------------------------------------
(* Characters and strings *)

\* str.lower() on the characters of the model's alphabet
LowerChar(c) ==
    CASE c = "S" -> "s" [] c = "T" -> "t" [] c = "L" -> "l" [] c = "O" -> "o"
      [] c = "U" -> "u" [] c = "I" -> "i" [] c = "A" -> "a" [] c = "N" -> "n"
      [] c = "B" -> "b" [] c = "C" -> "c" [] c = "D" -> "d" [] c = "M" -> "m"
      [] OTHER -> c

lower(s) == [i \in 1..Len(s) |-> LowerChar(s[i])]

\* characters str.strip() removes
IsSpace(c) == c \in {" ", "\t", "\n"}

RECURSIVE lstrip(_)
lstrip(s) == IF s # <<>> /\ IsSpace(Head(s)) THEN lstrip(Tail(s)) ELSE s

RECURSIVE rstrip(_)
rstrip(s) ==
    IF s # <<>> /\ IsSpace(s[Len(s)]) THEN rstrip(SubSeq(s, 1, Len(s) - 1)) ELSE s

strip(s) == rstrip(lstrip(s))

\* index of the first "," of s, 0 if there is none
FirstComma(s) ==
    IF \E i \in 1..Len(s) : s[i] = ","
    THEN CHOOSE i \in 1..Len(s) : s[i] = "," /\ \A j \in 1..(i - 1) : s[j] # ","
    ELSE 0

\* address.split(",", 1): one part when there is no comma, else two
split_first_comma(s) ==
    LET k == FirstComma(s)
    IN  IF k = 0 THEN <<s>>
        ELSE <<SubSeq(s, 1, k - 1), SubSeq(s, k + 1, Len(s))>>

ST_DOT_LOUIS == <<"s", "t", ".", " ", "l", "o", "u", "i", "s">>
ST_LOUIS     == <<"s", "t", " ", "l", "o", "u", "i", "s">>
SAINT_LOUIS  == <<"s", "a", "i", "n", "t", " ", "l", "o", "u", "i", "s">>

\* the spellings of the match statement
CitySpellings == {ST_DOT_LOUIS, ST_LOUIS, SAINT_LOUIS}

\* variant: the locality is compared without strip()
possibly_strip_city_no_strip(address) ==
    LET parts == split_first_comma(address)
    IN  IF Len(parts) # 2
        THEN [raised |-> TRUE, value |-> <<>>]
        ELSE IF lower(parts[2]) \in CitySpellings
             THEN [raised |-> FALSE, value |-> parts[1]]
             ELSE [raised |-> FALSE, value |-> address]

\* possibly_strip_city(address): [raised, value]; raised is the ValueError of
\* unpacking a one-element split into (address_only, city)
possibly_strip_city(address) ==
    LET parts == split_first_comma(address)
    IN  IF Len(parts) # 2
        THEN [raised |-> TRUE, value |-> <<>>]
        ELSE LET address_only == parts[1]
                 city == parts[2]
             IN  IF lower(strip(city)) \in CitySpellings
                 THEN [raised |-> FALSE, value |-> address_only]
                 ELSE [raised |-> FALSE, value |-> address]

-----------------------------------------------------------------------------
(* Records, addresses and the two providers' data *)

RESERVED_FIELDS == {"lat", "lon", "result_name", "geocode_score", "geocoder"}

\* itertools.batched(addresses, esri_batch_size) in geocode_stl
esri_batch_size == 100

\* the absent result (Python None)
None == [none |-> TRUE]

GeocodeResult(lat, lon, geocode_score, result_name, geocoder) ==
    [lat |-> lat, lon |-> lon, geocode_score |-> geocode_score,
     result_name |-> result_name, geocoder |-> geocoder]

\* "1A, St. Louis": the regional provider matches the street part "1A"
ADDR_CITY == <<"1", "A", ",", " ", "S", "t", ".", " ", "L", "o", "u", "i", "s">>
\* "2B,SAINT LOUIS ": city stripped, no regional match, the global provider
\* matches the full address
ADDR_CITY_MISS ==
    <<"2", "B", ",", "S", "A", "I", "N", "T", " ", "L", "O", "U", "I", "S", " ">>
\* "3C, MO": another locality, matched by neither provider
ADDR_NOWHERE == <<"3", "C", ",", " ", "M", "O">>
\* "4D": no comma
ADDR_NO_COMMA == <<"4", "D">>

\* the regional provider's answer for one record of the request: a location entry
\* of the documented shape; an unmatched record has an empty address and score 0
StlLocation(rec) ==
    IF rec.SingleLine = <<"1", "A">>
    THEN [attributes |-> [ResultID |-> rec.OBJECTID],
          location |-> [x |-> -90, y |-> 38], score |-> 100, address |-> "1 A ST"]
    ELSE [attributes |-> [ResultID |-> rec.OBJECTID],
          location |-> [x |-> 0, y |-> 0], score |-> 0, address |-> ""]

\* the global provider's result set for q (limit=1): empty or one entry
OsmData(q) ==
    IF q = ADDR_CITY
    THEN <<[lat |-> 38, lon |-> -90, importance |-> 7, display_name |-> "1 A St, St. Louis"]>>
    ELSE IF q = ADDR_CITY_MISS
    THEN <<[lat |-> 39, lon |-> -91, importance |-> 5, display_name |-> "2 B, Saint Louis"]>>
    ELSE <<>>

\* orders in which the regional provider may list the locations of a response
ResponseOrders == {"as_sent", "reversed", "rotated"}

Reorder(s, order) ==
    LET n == Len(s)
    IN  CASE order = "as_sent" -> s
          [] order = "reversed" -> [i \in 1..n |-> s[n + 1 - i]]
          [] order = "rotated" -> [i \in 1..n |-> s[(i % n) + 1]]

\* what a request can come back with: a transport exception, or a response with
\* an HTTP status (ok or not) and a body that is not JSON ("garbage"), a JSON
\* error object ("error") or JSON of the documented shape ("data")
Outcomes ==
    {[exc |-> TRUE, http_ok |-> FALSE, body |-> "none"]}
    \cup [exc : {FALSE}, http_ok : BOOLEAN, body : {"garbage", "error", "data"}]

\* the failures the error taxonomy calls fatal
IsFatal(o) == o.exc \/ ~o.http_ok \/ o.body # "data"

-----------------------------------------------------------------------------
(* format_esri_batch, geocode_stl_batch *)

\* format_esri_batch(addresses): [raised, records]
format_esri_batch(addresses) ==
    IF \E i \in 1..Len(addresses) : possibly_strip_city(addresses[i]).raised
    THEN [raised |-> TRUE, records |-> <<>>]
    ELSE [raised |-> FALSE,
          records |-> [i \in 1..Len(addresses) |->
                         [OBJECTID |-> (i - 1) + 1,
                          SingleLine |-> possibly_strip_city(addresses[i]).value]]]

\* variant: the locations are taken in the order of the response
unsorted(locations) == locations

\* sorted(data["locations"], key=lambda x: x["attributes"]["ResultID"]): a stable
\* sort; the entry at index i lands after the entries with a smaller key and the
\* earlier entries with the same key
sorted_by_ResultID(locations) ==
    LET n == Len(locations)
        key == [i \in 1..n |-> locations[i].attributes.ResultID] \o <<>>
        rank == [i \in 1..n |->
                   Cardinality({j \in 1..n : key[j] < key[i] \/ (key[j] = key[i] /\ j <= i)})]
                \o <<>>
    IN  [k \in 1..n |-> locations[CHOOSE i \in 1..n : rank[i] = k]]

\* the GeocodeResults geocode_stl_batch yields for the locations of a response
stl_batch_results(locations) ==
    LET s == sorted_by_ResultID(locations)
    IN  [i \in 1..Len(s) |->
           GeocodeResult(s[i].location.y, s[i].location.x, s[i].score,
                         s[i].address, "stl_esri")]

\* the next window itertools.batched hands to geocode_stl
next_batch(addresses, start) ==
    SubSeq(addresses, start + 1,
           IF start + esri_batch_size < Len(addresses)
           THEN start + esri_batch_size ELSE Len(addresses))

-----------------------------------------------------------------------------
(* geocode_nominatim_single, geocode_nominatim_batch *)

\* geocode_nominatim_single(address) on outcome o: [raised, error, value]
geocode_nominatim_single(address, o) ==
    IF o.exc THEN [raised |-> TRUE, error |-> "ConnectionError", value |-> None]
    ELSE IF o.body = "garbage"
    THEN [raised |-> TRUE, error |-> "JSONDecodeError", value |-> None]
    ELSE IF o.body = "error"
    THEN [raised |-> TRUE, error |-> "KeyError", value |-> None]
    ELSE LET data == OsmData(address)
         IN  IF data = <<>>
             THEN [raised |-> FALSE, error |-> "", value |-> None]
             ELSE [raised |-> FALSE, error |-> "",
                   value |-> GeocodeResult(data[1].lat, data[1].lon, data[1].importance,
                                           data[1].display_name, "openstreetmap")]

\* geocode_nominatim_batch is a generator: a next() that resumes it after a yield
\* runs time.sleep(1) before the following request; the first next() of a fresh
\* generator runs no sleep
nominatim_next_sleeps(resumed) == resumed

-----------------------------------------------------------------------------
(* Inputs *)

\* an input line: a location and a field the pipeline passes through
Record(address) == [location |-> address, name |-> "cafe"]

\* an input line that already holds a reserved field
ReservedRecord(address) == [location |-> address, name |-> "cafe", lat |-> 0]

\* the kinds of input line
BaseRecords == {Record(ADDR_CITY), Record(ADDR_CITY_MISS), Record(ADDR_NOWHERE)}
BadRecords == {Record(ADDR_NO_COMMA), ReservedRecord(ADDR_CITY)}

\* every input of at most MaxSmallLen lines
SmallInputs ==
    UNION { [1..n -> BaseRecords \cup BadRecords] : n \in 0..MaxSmallLen }

\* lengths of the long inputs: k full batches plus no, one or half a batch of lines
LongLengths ==
    {k * esri_batch_size + r :
        k \in 1..MaxFullBatches, r \in {0, 1, esri_batch_size \div 2}}

\* a long input whose lines repeat the three kinds of good record in turn
Cycle(n) ==
    [i \in 1..n |->
        CASE i % 3 = 1 -> Record(ADDR_CITY)
          [] i % 3 = 2 -> Record(ADDR_CITY_MISS)
          [] OTHER -> Record(ADDR_NOWHERE)]

\* positions at the ends of the input and of its batches
EdgePositions(n) ==
    {p \in 1..n : p = 1 \/ p = n \/ p % esri_batch_size \in {0, 1}}

\* long inputs: all lines alike, the kinds in turn, and the kinds in turn with one
\* bad line at an edge
LongInputs ==
    UNION {
        { [i \in 1..n |-> base] : base \in BaseRecords }
        \cup {Cycle(n)}
        \cup { [Cycle(n) EXCEPT ![p] = bad] : bad \in BadRecords, p \in EdgePositions(n) }
        : n \in LongLengths }

-----------------------------------------------------------------------------
(* main, geocode, geocode_stl *)

NotWritten == [written |-> FALSE, lines |-> <<>>]

InitPipeline ==
    /\ pc = "read"
    /\ addresses_to_geocode = <<>>
    /\ output_data = <<>>
    /\ output = NotWritten
    /\ idx = 0
    /\ results = <<>>
    /\ batch_start = 0
    /\ stl_payload = <<>>
    /\ esri_results = <<>>
    /\ esri_pos = 0
    /\ stl_requests = <<>>
    /\ stl_outstanding = 0
    /\ osm_requests = <<>>
    /\ osm_query = <<>>
    /\ slept = FALSE
    /\ osm_unspaced = 0
    /\ fatal_ignored = FALSE
    /\ error = ""

InitStripIdle ==
    /\ strip_case = [street |-> <<>>, comma |-> FALSE, lpad |-> <<>>, city |-> <<>>,
                     rpad |-> <<>>, rest |-> <<>>]
    /\ strip_in = <<>>
    /\ strip_out = [called |-> FALSE, raised |-> FALSE, value |-> <<>>]

Init ==
    /\ \/ jsonl \in SmallInputs
       \/ jsonl \in LongInputs \ SmallInputs
    /\ InitPipeline
    /\ InitStripIdle

Fail(e) ==
    /\ pc' = "failed"
    /\ error' = e

\* variant: only the first line is validated
FirstReserved_first_line_only(lines) ==
    IF lines # <<>> /\ RESERVED_FIELDS \cap DOMAIN lines[1] # {} THEN 1 ELSE 0

\* the index of the first line holding a reserved field, 0 if there is none
FirstReserved(lines) ==
    IF \E i \in 1..Len(lines) : RESERVED_FIELDS \cap DOMAIN lines[i] # {}
    THEN CHOOSE i \in 1..Len(lines) :
            /\ RESERVED_FIELDS \cap DOMAIN lines[i] # {}
            /\ \A j \in 1..(i - 1) : RESERVED_FIELDS \cap DOMAIN lines[j] = {}
    ELSE 0

\* main, first pass: read every line, reject reserved fields, collect addresses
ReadInput ==
    /\ pc = "read"
    /\ LET bad == FirstReserved(jsonl)
           kept == IF bad = 0 THEN jsonl ELSE SubSeq(jsonl, 1, bad - 1)
       IN  /\ addresses_to_geocode' = [i \in 1..Len(kept) |-> kept[i].location]
           /\ output_data' = kept
           /\ IF bad = 0
              THEN pc' = "geocode" /\ error' = error
              ELSE Fail("ValueError")
    /\ UNCHANGED <<jsonl, output, idx, results, batch_start, stl_payload, esri_results,
                   esri_pos, stl_requests, stl_outstanding, osm_requests, osm_query,
                   slept, osm_unspaced, fatal_ignored, strip_vars>>

\* variant: the next batch is fetched while one result is still to be yielded
batch_almost_exhausted(pos, batch_results) == pos >= Len(batch_results) - 1

\* geocode_stl: "yield from esri_results" returns once every result of the batch
\* has been yielded
batch_exhausted(pos, batch_results) == pos = Len(batch_results)

\* geocode_stl: the current batch is used up and zip asks for the result of the next
\* address; geocode_stl_batch builds the request (format_esri_batch) and posts it
StlPost ==
    /\ pc = "geocode"
    /\ idx < Len(addresses_to_geocode)
    /\ batch_exhausted(esri_pos, esri_results)
    /\ LET start == batch_start + Len(esri_results)
           esri_batch == next_batch(addresses_to_geocode, start)
           formatted == format_esri_batch(esri_batch)
       IN  /\ batch_start' = start
           /\ IF formatted.raised
              THEN /\ Fail("ValueError")
                   /\ UNCHANGED <<stl_payload, stl_requests, stl_outstanding>>
              ELSE /\ pc' = "stl_wait"
                   /\ error' = error
                   /\ stl_payload' = formatted.records
                   /\ stl_requests' = Append(stl_requests, Len(formatted.records))
                   /\ stl_outstanding' = stl_outstanding + 1
    /\ esri_results' = <<>>
    /\ esri_pos' = 0
    /\ UNCHANGED <<jsonl, addresses_to_geocode, output_data, output, idx, results,
                   osm_requests, osm_query, slept, osm_unspaced, fatal_ignored,
                   strip_vars>>

\* geocode_stl_batch: the response arrives, is parsed and sorted
StlResponse ==
    /\ pc = "stl_wait"
    /\ \E o \in Outcomes, order \in ResponseOrders :
         /\ stl_outstanding' = stl_outstanding - 1
         /\ IF o.exc THEN Fail("ConnectionError") /\ UNCHANGED <<esri_results, fatal_ignored>>
            ELSE IF o.body = "garbage"
            THEN Fail("JSONDecodeError") /\ UNCHANGED <<esri_results, fatal_ignored>>
            ELSE IF o.body = "error"
            THEN Fail("KeyError") /\ UNCHANGED <<esri_results, fatal_ignored>>
            ELSE /\ pc' = "geocode"
                 /\ error' = error
                 /\ fatal_ignored' = (fatal_ignored \/ IsFatal(o))
                 /\ esri_results' =
                      stl_batch_results(
                          Reorder([i \in 1..Len(stl_payload) |-> StlLocation(stl_payload[i])],
                                  order))
    /\ UNCHANGED <<jsonl, addresses_to_geocode, output_data, output, idx, results,
                   batch_start, stl_payload, esri_pos, stl_requests, osm_requests,
                   osm_query, slept, osm_unspaced, strip_vars>>

\* variant: the geocoder field is not set
merge_without_geocoder(data, result) ==
    IF result = None THEN data
    ELSE [f \in DOMAIN data \cup (RESERVED_FIELDS \ {"geocoder"}) |->
            CASE f = "lat" -> result.lat
              [] f = "lon" -> result.lon
              [] f = "result_name" -> result.result_name
              [] f = "geocode_score" -> result.geocode_score
              [] OTHER -> data[f]]

\* main, second pass, loop body: set the five fields of output_data[idx]
merge(data, result) ==
    IF result = None THEN data
    ELSE [f \in DOMAIN data \cup RESERVED_FIELDS |->
            CASE f = "lat" -> result.lat
              [] f = "lon" -> result.lon
              [] f = "result_name" -> result.result_name
              [] f = "geocode_score" -> result.geocode_score
              [] f = "geocoder" -> result.geocoder
              [] OTHER -> data[f]]

\* variant: geocode yields nothing for an address without a result
Emit_skipping_none(result) ==
    /\ results' = IF result = None THEN results ELSE Append(results, result)
    /\ output_data' = [output_data EXCEPT ![idx + 1] = merge(@, result)]
    /\ idx' = idx + 1

\* geocode yields result for position idx + 1 and main merges it
Emit(result) ==
    /\ results' = Append(results, result)
    /\ output_data' = [output_data EXCEPT ![idx + 1] = merge(@, result)]
    /\ idx' = idx + 1

\* variant: the test is inverted
needs_fallback_inverted(result_stl) == result_stl.result_name # ""

\* geocode: "not result_stl.result_name"
needs_fallback(result_stl) == result_stl.result_name = ""

\* geocode: the regional result has a matched name and is yielded as it is
RegionalHit ==
    /\ pc = "geocode"
    /\ idx < Len(addresses_to_geocode)
    /\ esri_pos < Len(esri_results)
    /\ LET result_stl == esri_results[esri_pos + 1]
       IN  /\ ~needs_fallback(result_stl)
           /\ Emit(result_stl)
    /\ esri_pos' = esri_pos + 1
    /\ UNCHANGED <<pc, jsonl, addresses_to_geocode, output, batch_start, stl_payload,
                   esri_results, stl_requests, stl_outstanding, osm_requests,
                   osm_query, slept, osm_unspaced, fatal_ignored, error,
                   strip_vars>>

\* variant: the global provider is sent the normalized address
fallback_query_normalized(addresses, i) == possibly_strip_city(addresses[i]).value

\* the address geocode hands to geocode_nominatim for position i
fallback_query(addresses, i) == addresses[i]

\* geocode: the regional result has no matched name; next(geocode_nominatim([address]))
\* runs a fresh generator up to its first yield, and the generator is dropped
GlobalFallback ==
    /\ pc = "geocode"
    /\ idx < Len(addresses_to_geocode)
    /\ esri_pos < Len(esri_results)
    /\ needs_fallback(esri_results[esri_pos + 1])
    /\ \E o \in Outcomes :
         LET address == fallback_query(addresses_to_geocode, idx + 1)
             got == geocode_nominatim_single(address, o)
         IN  /\ osm_requests' = Append(osm_requests, idx + 1)
             /\ osm_query' = address
             /\ osm_unspaced' =
                   IF osm_requests # <<>> /\ ~slept THEN osm_unspaced + 1 ELSE osm_unspaced
             /\ slept' = nominatim_next_sleeps(FALSE)
                 /\ IF got.raised
                THEN /\ Fail(got.error)
                     /\ UNCHANGED <<results, output_data, idx, esri_pos, fatal_ignored>>
                ELSE /\ Emit(got.value)
                     /\ esri_pos' = esri_pos + 1
                     /\ fatal_ignored' = (fatal_ignored \/ IsFatal(o))
                     /\ UNCHANGED <<pc, error>>
    /\ UNCHANGED <<jsonl, addresses_to_geocode, output, batch_start, stl_payload,
                   esri_results, stl_requests, stl_outstanding, strip_vars>>

\* main: geocode is exhausted; write every record of output_data
WriteOutput ==
    /\ pc = "geocode"
    /\ idx = Len(addresses_to_geocode)
    /\ output' = [written |-> TRUE, lines |-> output_data]
    /\ pc' = "done"
    /\ UNCHANGED <<jsonl, addresses_to_geocode, output_data, idx, results, batch_start,
                   stl_payload, esri_results, esri_pos, stl_requests, stl_outstanding,
                   osm_requests, osm_query, slept, osm_unspaced, fatal_ignored,
                   error, strip_vars>>

Next ==
    \/ ReadInput
    \/ StlPost
    \/ StlResponse
    \/ RegionalHit
    \/ GlobalFallback
    \/ WriteOutput

Spec == Init /\ [][Next]_vars

-----------------------------------------------------------------------------
(* possibly_strip_city on its own *)

StripStreets == {<<>>, <<"1", "A">>, <<"1", " ", "A", " ">>}
StripPads == {<<>>, <<" ">>, <<"\t", " ">>}

\* spellings of the city the match statement accepts once lower-cased
KnownCityForms ==
    { <<"S", "t", ".", " ", "L", "o", "u", "i", "s">>,
      <<"S", "T", ".", " ", "L", "O", "U", "I", "S">>,
      <<"s", "t", " ", "l", "o", "u", "i", "s">>,
      <<"S", "t", " ", "L", "o", "u", "i", "s">>,
      <<"S", "a", "i", "n", "t", " ", "L", "o", "u", "i", "s">>,
      <<"s", "A", "I", "N", "T", " ", "l", "O", "U", "I", "S">> }

\* localities it does not accept
OtherCityForms ==
    { <<>>,
      <<"M", "O">>,
      <<"S", "t", ".", "L", "o", "u", "i", "s">>,
      <<"S", "t", ".", " ", " ", "L", "o", "u", "i", "s">>,
      <<"S", "t", ".", " ", "L", "o", "u", "i">>,
      <<"t", ".", " ", "L", "o", "u", "i", "s">>,
      <<"S", "a", "i", "n", "t", "\t", "L", "o", "u", "i", "s">> }

\* what may follow the locality
StripRests == {<<>>, <<",", " ", "M", "O">>, <<" ", "M", "O">>, <<".">>}

StripCases ==
    [street : StripStreets, comma : {FALSE}, lpad : {<<>>}, city : {<<>>},
     rpad : {<<>>}, rest : {<<>>}]
    \cup
    [street : StripStreets, comma : {TRUE}, lpad : StripPads,
     city : KnownCityForms \cup OtherCityForms, rpad : StripPads, rest : StripRests]

StripAddress(c) ==
    IF c.comma THEN c.street \o <<",">> \o c.lpad \o c.city \o c.rpad \o c.rest
    ELSE c.street

InitStrip ==
    /\ jsonl = <<>>
    /\ InitPipeline
    /\ strip_case \in StripCases
    /\ strip_in = StripAddress(strip_case)
    /\ strip_out = [called |-> FALSE, raised |-> FALSE, value |-> <<>>]

StripCall ==
    /\ ~strip_out.called
    /\ LET r == possibly_strip_city(strip_in)
       IN  strip_out' = [called |-> TRUE, raised |-> r.raised, value |-> r.value]
    /\ UNCHANGED <<strip_case, strip_in, jsonl, pipeline_rest>>

NextStrip == StripCall

SpecStrip == InitStrip /\ [][NextStrip]_vars

-----------------------------------------------------------------------------
(* Properties *)

Range(f) == {f[i] : i \in DOMAIN f}

HasReserved(data) == RESERVED_FIELDS \cap DOMAIN data # {}

\* the addresses with a comma that the inputs are made of
GoodAddresses == {ADDR_CITY, ADDR_CITY_MISS, ADDR_NOWHERE}

\* what the regional provider is to be sent for each of them
SingleLineOf ==
    (ADDR_CITY :> <<"1", "A">>) @@ (ADDR_CITY_MISS :> <<"2", "B">>)
    @@ (ADDR_NOWHERE :> ADDR_NOWHERE)

\* the regional provider's matched name for the street part of each address
RegionalNames ==
    [a \in GoodAddresses |->
        StlLocation([OBJECTID |-> 1, SingleLine |-> SingleLineOf[a]]).address] @@ <<>>

RegionalName(address) == RegionalNames[address]

\* the regional provider's answer to a request record, as a GeocodeResult
RegionalAnswer(rec) ==
    LET loc == StlLocation(rec)
    IN  [lat |-> loc.location.y, lon |-> loc.location.x, geocode_score |-> loc.score,
         result_name |-> loc.address, geocoder |-> "stl_esri"]

\* the global provider's answer to a query, as a GeocodeResult or None
GlobalAnswer(q) ==
    IF OsmData(q) = <<>> THEN None
    ELSE [lat |-> OsmData(q)[1].lat, lon |-> OsmData(q)[1].lon,
          geocode_score |-> OsmData(q)[1].importance,
          result_name |-> OsmData(q)[1].display_name, geocoder |-> "openstreetmap"]

\* C1: every global request but the first of a run is issued after a time.sleep(1)
\* that ran since the previous global request
C1_GlobalRequestsSpaced == osm_unspaced = 0

\* C2: the stream geocode() yields has one entry per address consumed, a completed
\* run has yielded as many entries as there are addresses, and the entry at
\* position i is an answer of one of the providers for address i, or None
C2_StreamAligned ==
    /\ Len(results) = idx
    /\ idx <= Len(addresses_to_geocode)
    /\ pc = "done" =>
          /\ Len(results) = Len(addresses_to_geocode)
          /\ Len(results) = Len(jsonl)
    /\ \A i \in 1..Len(results) :
          LET a == addresses_to_geocode[i]
          IN  \/ results[i] = None
              \/ /\ results[i].geocoder = "stl_esri"
                 /\ results[i].result_name = RegionalName(a)
              \/ /\ results[i].geocoder = "openstreetmap"
                 /\ results[i] = GlobalAnswer(a)

\* a completed run over addresses the regional provider matches, addresses only the
\* global provider matches and addresses nobody matches, with None entries before
\* the last entry
C2_Witness ==
    /\ pc = "done"
    /\ Len(results) > esri_batch_size
    /\ \E i, j, k \in 1..Len(results) :
          /\ i < j /\ j < k
          /\ results[i] = None
          /\ results[j] # None /\ results[j].geocoder = "openstreetmap"
          /\ results[k] # None /\ results[k].geocoder = "stl_esri"

\* C3: positions sent to the global provider are sent once, in increasing order,
\* only after the regional request covering them was answered, and are exactly the
\* positions whose regional result has an empty matched name
C3_FallbackIffEmptyName ==
    LET requested == Range(osm_requests)
    IN  /\ \A r \in 1..Len(osm_requests) :
              /\ r > 1 => osm_requests[r - 1] < osm_requests[r]
              /\ osm_requests[r] <= batch_start + Len(esri_results)
              /\ Len(stl_requests) >= 1
        /\ \A k \in 1..Len(esri_results) :
              /\ (batch_start + k) \in requested => esri_results[k].result_name = ""
              /\ (k <= esri_pos /\ esri_results[k].result_name = "")
                    => (batch_start + k) \in requested
        /\ \A i \in 1..idx :
              (i \in requested) <=> (RegionalName(addresses_to_geocode[i]) = "")

\* a run that has passed addresses with a matched name (no global request) and
\* addresses with an empty one (one global request each) in its second batch
C3_Witness ==
    /\ pc = "geocode"
    /\ batch_start >= esri_batch_size
    /\ esri_pos >= 3
    /\ \E k \in 1..esri_pos : esri_results[k].result_name # ""
                              /\ (batch_start + k) \notin Range(osm_requests)
    /\ \E k \in 1..esri_pos : esri_results[k].result_name = ""
                              /\ (batch_start + k) \in Range(osm_requests)

\* C4: the entry yielded for a position of the current batch is the regional result
\* when its matched name is not empty, and otherwise the global provider's answer
\* for the original address: an openstreetmap result, or None for an empty result
\* set; the last global request carried the original address
C4_EntryIsRegionalOrGlobal ==
    /\ \A k \in 1..esri_pos :
          LET i == batch_start + k
          IN  IF esri_results[k].result_name # ""
              THEN results[i] = esri_results[k]
              ELSE results[i] = GlobalAnswer(addresses_to_geocode[i])
    /\ osm_requests # <<>> =>
          osm_query = addresses_to_geocode[osm_requests[Len(osm_requests)]]

\* the global provider was asked for an address that the normalizer changes, and
\* answered with a match
C4_Witness ==
    /\ esri_pos >= 1
    /\ esri_results[esri_pos].result_name = ""
    /\ results[idx] # None
    /\ results[idx].geocoder = "openstreetmap"
    /\ possibly_strip_city(addresses_to_geocode[idx]).value # addresses_to_geocode[idx]
    /\ \E i \in 1..idx : results[i] = None

\* number of windows of esri_batch_size lines that cover n lines
Windows(n) == (n + esri_batch_size - 1) \div esri_batch_size

\* size of the j-th window over n lines
WindowSize(n, j) ==
    IF j * esri_batch_size <= n THEN esri_batch_size ELSE n - (j - 1) * esri_batch_size

\* C5: the regional requests cover consecutive windows of 100 addresses (the last
\* one possibly smaller; a completed run over n addresses has issued ceil(n/100),
\* and 250 addresses give 100, 100, 50); the records of a request carry the
\* identifiers 1..size and the normalized addresses of its window in input order;
\* and the results of a batch are the provider's answers to the records of the
\* request in the order of the records, whatever the order of the response
C5_BatchesInOrder ==
    LET n == Len(addresses_to_geocode)
    IN  /\ Len(stl_requests) <= Windows(n)
        /\ \A j \in 1..Len(stl_requests) : stl_requests[j] = WindowSize(n, j)
        /\ pc = "done" => Len(stl_requests) = Windows(n)
        /\ (pc = "done" /\ n = 250) => stl_requests = <<100, 100, 50>>
        /\ pc \in {"stl_wait", "geocode", "done"} /\ stl_requests # <<>> =>
              /\ batch_start = (Len(stl_requests) - 1) * esri_batch_size
              /\ Len(stl_payload) = stl_requests[Len(stl_requests)]
              /\ \A k \in 1..Len(stl_payload) :
                    /\ stl_payload[k].OBJECTID = k
                    /\ stl_payload[k].SingleLine
                          = SingleLineOf[addresses_to_geocode[batch_start + k]]
        /\ pc \in {"geocode", "done"} /\ stl_requests # <<>> =>
              /\ Len(esri_results) = Len(stl_payload)
              /\ \A k \in 1..Len(esri_results) :
                    esri_results[k] = RegionalAnswer(stl_payload[k])

\* the third batch of 250 addresses has been answered and holds matched and
\* unmatched addresses
C5_Witness ==
    /\ Len(addresses_to_geocode) = 250
    /\ stl_requests = <<100, 100, 50>>
    /\ pc = "geocode"
    /\ Len(esri_results) = 50
    /\ \E j, k \in 1..Len(esri_results) :
          esri_results[j].result_name = "" /\ esri_results[k].result_name # ""

\* C6: when a line of the input holds a reserved field, the run makes no request
\* to either provider, writes no output, and can only end with the ValueError of
\* the validation
C6_ReservedRejectedFirst ==
    (\E i \in 1..Len(jsonl) : HasReserved(jsonl[i])) =>
        /\ stl_requests = <<>>
        /\ osm_requests = <<>>
        /\ ~output.written
        /\ pc \in {"read", "failed"}
        /\ pc = "failed" => error = "ValueError"

\* the run was rejected for a reserved field on the last of more than 100 lines
C6_Witness ==
    /\ pc = "failed"
    /\ error = "ValueError"
    /\ Len(jsonl) > esri_batch_size
    /\ HasReserved(jsonl[Len(jsonl)])
    /\ \A i \in 1..(Len(jsonl) - 1) : ~HasReserved(jsonl[i])

\* C7: no run goes on after a provider's fatal failure (transport failure,
\* non-success status, unparseable or unexpected response)
C7_FatalAborts == ~fatal_ignored

\* C8: the output of a completed run holds one line per input line, in input
\* order; a line whose result is None equals the input line; a line whose result
\* is present holds the five reserved fields of that result; the other fields of
\* every line are those of the input line
C8_OutputIsInputPlusResults ==
    pc = "done" =>
        /\ output.written
        /\ Len(output.lines) = Len(jsonl)
        /\ \A i \in 1..Len(jsonl) :
              LET out == output.lines[i]
              IN  /\ DOMAIN out \ RESERVED_FIELDS = DOMAIN jsonl[i]
                  /\ \A f \in DOMAIN jsonl[i] : out[f] = jsonl[i][f]
                  /\ results[i] = None => DOMAIN out = DOMAIN jsonl[i]
                  /\ results[i] # None =>
                        /\ RESERVED_FIELDS \subseteq DOMAIN out
                        /\ out.lat = results[i].lat
                        /\ out.lon = results[i].lon
                        /\ out.result_name = results[i].result_name
                        /\ out.geocode_score = results[i].geocode_score
                        /\ out.geocoder = results[i].geocoder

\* a completed run of more than one batch with absent, regional and global results
C8_Witness ==
    /\ pc = "done"
    /\ output.written
    /\ Len(output.lines) > esri_batch_size
    /\ \E i, j, k \in 1..Len(results) :
          /\ results[i] = None
          /\ results[j] # None /\ results[j].geocoder = "stl_esri"
          /\ results[k] # None /\ results[k].geocoder = "openstreetmap"

\* C9: possibly_strip_city fails on an address without a comma; returns the part
\* before the first comma when what follows it is, trimmed and lower-cased, one of
\* the three spellings; and returns the address unchanged otherwise
C9_StripCity ==
    strip_out.called =>
        IF ~strip_case.comma
        THEN strip_out.raised
        ELSE /\ ~strip_out.raised
             /\ IF strip_case.city \in KnownCityForms /\ strip_case.rest = <<>>
                THEN strip_out.value = strip_case.street
                ELSE strip_out.value = strip_in

\* the city was stripped from an address with padding around an upper-case spelling
C9_Witness ==
    /\ strip_out.called
    /\ strip_case.comma
    /\ strip_case.lpad # <<>> /\ strip_case.rpad # <<>>
    /\ strip_case.city = <<"S", "T", ".", " ", "L", "O", "U", "I", "S">>
    /\ strip_out.value = strip_case.street
    /\ strip_out.value # strip_in

\* C10: while a regional request is outstanding it is the only one, every result
\* of the earlier batches has been yielded and consumed, and every address of the
\* earlier batches whose regional result had an empty name has had its global
\* request
C10_BatchesInSequence ==
    /\ stl_outstanding \in {0, 1}
    /\ stl_outstanding = 1 <=> pc = "stl_wait"
    /\ pc = "stl_wait" =>
          /\ idx = batch_start
          /\ Len(results) = batch_start
          /\ batch_start = (Len(stl_requests) - 1) * esri_batch_size
          /\ LET requested == Range(osm_requests)
             IN  \A i \in 1..batch_start :
                    RegionalName(addresses_to_geocode[i]) = "" => i \in requested

\* the third regional request is outstanding after global requests in both
\* earlier batches
C10_Witness ==
    /\ pc = "stl_wait"
    /\ Len(stl_requests) = 3
    /\ \E r, t \in 1..Len(osm_requests) :
          /\ osm_requests[r] <= esri_batch_size
          /\ osm_requests[t] > esri_batch_size

====
